---- MODULE Spec2Model ----
(***************************************************************************)
(* Model of the StridedSlice stage of the VPU graph transformer            *)
(* (inference-engine/src/vpu/graph_transformer/src/stages/                 *)
(* strided_slice.cpp): the mask codec maskStrToInt, the frontend           *)
(* translation FrontEnd::parseStridedSlice, the structural validator       *)
(* StridedSliceStage::initialCheckImpl and the two encoders                *)
(* serializeParamsImpl / serializeDataImpl.                                *)
(*                                                                         *)
(* Texts (std::string) are sequences of one-character strings.             *)
(***************************************************************************)
EXTENDS Integers, Sequences, FiniteSets, TLC

VARIABLES
    model,        \* the graph container: [stages, numFakeData]
    pc,           \* "idle" | "parsed": position of the frontend's caller
    call,         \* arguments and outcome of the parseStridedSlice call just made
    okCalls,      \* history: number of parseStridedSlice calls that returned
    okCalls3,     \* history: ... of those, the calls made with 3 inputs
    checked,      \* results of initialCheckImpl, in stage order
    serializer,   \* the BlobSerializer: sequence of appended items
    serIdx,       \* index of the stage the code generator is at
    serPc,        \* "params" | "data" | "failed"
    serStart,     \* length of the blob when the current/last stage was begun
    mask,         \* mask codec harness: the text handed to maskStrToInt
    encoded,      \* mask codec harness: outcome of maskStrToInt(mask)
    chkStage,     \* validator harness: the stage handed to initialCheckImpl
    chkResults    \* validator harness: results of the successive calls

vars == <<model, pc, call, okCalls, okCalls3, checked, serializer, serIdx,
          serPc, serStart, mask, encoded, chkStage, chkResults>>

----------------------------------------------------------------------------
(* Bounds of the model *)

MaxStages == 2      \* stages registered in one graph
MaxStrides == 2     \* elements of a strides tensor
MaxMaskLen == 3     \* free characters of a codec input
MaxPad == 30        \* flag characters put in front of a codec input
MaxChecks == 2      \* repeated calls of initialCheckImpl on one stage

----------------------------------------------------------------------------
(* Arithmetic on std::uint32_t *)

\* A std::uint32_t is the set of the positions of its 1 bits, a subset of
\* 0..31 (the values from 2^31 on have no numeral here): 0 is {}, 5 is {0, 2}.
UInt32Bits == 32

Zero == {}

BitOr(a, b) == a \cup b

Bit(value, i) == i \in value

\* (0x1 << idx) converted to std::uint32_t.  For idx >= 32 the shift is
\* undefined: a build either masks the shift count (x86) or shifts the bit
\* out (ARM, constant folding).
ShiftLeftOne(idx) ==
    IF idx < UInt32Bits THEN {{idx}}
    ELSE {{idx % UInt32Bits}, Zero}

----------------------------------------------------------------------------
(* maskStrToInt *)

Returned(result) == [status |-> "ok", result |-> result]
FormatError == [status |-> "format_error", result |-> Zero]

RECURSIVE maskLoop(_, _, _, _)
maskLoop(text, pos, idx, result) ==
    IF pos > Len(text) THEN {Returned(result)}
    ELSE LET character == text[pos] IN
         CASE character = "," -> maskLoop(text, pos + 1, idx, result)
           [] character = "1" ->
                UNION {maskLoop(text, pos + 1, idx + 1, BitOr(result, bit)) :
                          bit \in ShiftLeftOne(idx)}
           [] character = "0" -> maskLoop(text, pos + 1, idx + 1, result)
           [] OTHER -> {FormatError}

\* mutation: the separator advances the bit index
RECURSIVE maskLoopCommaCounts(_, _, _, _)
maskLoopCommaCounts(text, pos, idx, result) ==
    IF pos > Len(text) THEN {Returned(result)}
    ELSE LET character == text[pos] IN
         CASE character = "," -> maskLoopCommaCounts(text, pos + 1, idx + 1, result)
           [] character = "1" ->
                UNION {maskLoopCommaCounts(text, pos + 1, idx + 1, BitOr(result, bit)) :
                          bit \in ShiftLeftOne(idx)}
           [] character = "0" -> maskLoopCommaCounts(text, pos + 1, idx + 1, result)
           [] OTHER -> {FormatError}

\* mutation: no default case, an unknown character is skipped
RECURSIVE maskLoopNoDefault(_, _, _, _)
maskLoopNoDefault(text, pos, idx, result) ==
    IF pos > Len(text) THEN {Returned(result)}
    ELSE LET character == text[pos] IN
         CASE character = "1" ->
                UNION {maskLoopNoDefault(text, pos + 1, idx + 1, BitOr(result, bit)) :
                          bit \in ShiftLeftOne(idx)}
           [] character = "0" -> maskLoopNoDefault(text, pos + 1, idx + 1, result)
           [] OTHER -> maskLoopNoDefault(text, pos + 1, idx, result)

maskStrToIntCommaCounts(text) == maskLoopCommaCounts(text, 1, 0, Zero)

maskStrToIntNoDefault(text) == maskLoopNoDefault(text, 1, 0, Zero)

\* The set of outcomes of maskStrToInt(text): a singleton unless the text
\* has a '1' at flag index 32 or beyond.
maskStrToInt(text) == maskLoop(text, 1, 0, Zero)

----------------------------------------------------------------------------
(* Tensors (Data), layers (ie::CNNLayer) and the graph container (Model) *)

DataTypes == {"FP16", "S32"}

Tensor(type, usage, hasContent, content) ==
    [type |-> type, usage |-> usage, hasContent |-> hasContent, content |-> content]

totalDimSize(data) == Len(data.content)

NoError == "none"
ErrNumInputs == "number of input should be 3 or 4"
ErrNumOutputs == "number of outputs should be 1"
ErrFormat == "Unsupported mask value: only 0 or 1 are supported"
ErrNewAxisMask == "new_axis_mask parameter is not supported"
ErrShrinkAxisMask == "shrink_axis_mask parameter is not supported"
ErrEllipsisMask == "ellipsis_mask parameter is not supported"
ErrStridesNull == "pointer for strides is null"
ErrStride == "negative stride is not supported"
ErrTypes == "unexpected data type"

ArityErrors == {ErrNumInputs, ErrNumOutputs}
UnsupportedErrors == {ErrNewAxisMask, ErrShrinkAxisMask, ErrEllipsisMask}

EmptyModel == [stages |-> <<>>, numFakeData |-> 0]

\* Model::addFakeData: a new placeholder tensor without dimensions and
\* content; its element type is not fixed by this stage.
addFakeData(m) ==
    {[model |-> [m EXCEPT !.numFakeData = @ + 1],
      data |-> Tensor(type, "Fake", FALSE, <<>>)] : type \in DataTypes}

\* Model::addNewStage<StridedSliceStage>: registers one stage wired to the
\* given inputs and outputs, keeping the layer as origLayer().
addNewStage(m, layer, inputs, outputs) ==
    [m EXCEPT !.stages = Append(@, [origLayer |-> layer,
                                    inputs |-> inputs,
                                    outputs |-> outputs])]

----------------------------------------------------------------------------
(* FrontEnd::parseStridedSlice *)

Thrown(m, err, read) == [err |-> err, model |-> m, read |-> read]

\* mutation: a 5th input is tolerated
ValidNumInputsAtLeast3(n) == n >= 3

ValidNumInputs(n) == n = 3 \/ n = 4

ValidNumOutputs(n) == n = 1

\* mutation: a zero stride is accepted
PositiveStrideOrZero(value) == value >= 0

PositiveStride(value) == value > 0

\* The loop over the strides: the error raised and the number of elements
\* read when it ended.
RECURSIVE stridesLoop(_, _)
stridesLoop(strides, i) ==
    IF ~(i < totalDimSize(strides)) THEN [err |-> NoError, read |-> i]
    ELSE IF ~PositiveStride(strides.content[i + 1])
         THEN [err |-> ErrStride, read |-> i + 1]
         ELSE stridesLoop(strides, i + 1)

checkStrides(strides) ==
    IF ~strides.hasContent THEN [err |-> ErrStridesNull, read |-> 0]
    ELSE stridesLoop(strides, 0)

\* mutation: the shrink_axis_mask check is missing
UnsupportedMaskChecksNoShrink(layer) ==
    << <<layer.new_axis_mask, ErrNewAxisMask>>,
       <<layer.ellipsis_mask, ErrEllipsisMask>> >>

\* The three mask checks in program order: the text read from the layer and
\* the error raised when it does not encode to 0.
UnsupportedMaskChecks(layer) ==
    << <<layer.new_axis_mask, ErrNewAxisMask>>,
       <<layer.shrink_axis_mask, ErrShrinkAxisMask>>,
       <<layer.ellipsis_mask, ErrEllipsisMask>> >>

\* The errors the mask checks from the k-th on can end in (NoError: all pass).
RECURSIVE maskChecks(_, _)
maskChecks(checks, k) ==
    IF k > Len(checks) THEN {NoError}
    ELSE UNION {IF enc.status # "ok" THEN {ErrFormat}
                ELSE IF ~(enc.result = Zero) THEN {checks[k][2]}
                ELSE maskChecks(checks, k + 1) :
                   enc \in maskStrToInt(checks[k][1])}

\* mutation: the placeholder is not appended
extendedInputsNoFake(m, inputs) == {[model |-> m, inputs |-> inputs]}

\* DataVector extendedInputs{inputs}; with 3 inputs the placeholder is pushed.
extendedInputs(m, inputs) ==
    IF Len(inputs) = 3
    THEN {[model |-> fake.model, inputs |-> Append(inputs, fake.data)] :
             fake \in addFakeData(m)}
    ELSE {[model |-> m, inputs |-> inputs]}

\* mutation: the placeholder is created before the mask checks
parseStridedSliceFakeFirst(m, layer, inputs, outputs) ==
    IF ~ValidNumInputs(Len(inputs)) THEN {Thrown(m, ErrNumInputs, 0)}
    ELSE IF ~ValidNumOutputs(Len(outputs)) THEN {Thrown(m, ErrNumOutputs, 0)}
    ELSE UNION {
        UNION {
            IF maskErr # NoError THEN {Thrown(ext.model, maskErr, 0)}
            ELSE IF Len(inputs) = 3
            THEN {[err |-> NoError, read |-> 0,
                   model |-> addNewStage(ext.model, layer, ext.inputs, outputs)]}
            ELSE LET loop == checkStrides(inputs[4]) IN
                 IF loop.err # NoError THEN {Thrown(ext.model, loop.err, loop.read)}
                 ELSE {[err |-> NoError, read |-> loop.read,
                        model |-> addNewStage(ext.model, layer, ext.inputs, outputs)]} :
            maskErr \in maskChecks(UnsupportedMaskChecks(layer), 1)} :
        ext \in extendedInputs(m, inputs)}

\* The set of outcomes of parseStridedSlice(model, layer, inputs, outputs):
\* the error thrown (NoError when it returned), the model afterwards and the
\* number of stride elements read.
parseStridedSlice(m, layer, inputs, outputs) ==
    IF ~ValidNumInputs(Len(inputs)) THEN {Thrown(m, ErrNumInputs, 0)}
    ELSE IF ~ValidNumOutputs(Len(outputs)) THEN {Thrown(m, ErrNumOutputs, 0)}
    ELSE UNION {
        IF maskErr # NoError THEN {Thrown(m, maskErr, 0)}
        ELSE IF Len(inputs) = 3
        THEN {[err |-> NoError, read |-> 0,
               model |-> addNewStage(ext.model, layer, ext.inputs, outputs)] :
                 ext \in extendedInputs(m, inputs)}
        ELSE LET loop == checkStrides(inputs[4]) IN
             IF loop.err # NoError THEN {Thrown(m, loop.err, loop.read)}
             ELSE {[err |-> NoError, read |-> loop.read,
                    model |-> addNewStage(ext.model, layer, ext.inputs, outputs)] :
                      ext \in extendedInputs(m, inputs)} :
        maskErr \in maskChecks(UnsupportedMaskChecks(layer), 1)}

----------------------------------------------------------------------------
(* StridedSliceStage *)

numInputs(stage) == Len(stage.inputs)
numOutputs(stage) == Len(stage.outputs)

\* assertInputsOutputsTypes: every input and output has one of the element
\* types expected at its position.
assertInputsOutputsTypes(stage, expectedInputsTypes, expectedOutputsTypes) ==
    IF /\ Len(expectedInputsTypes) = numInputs(stage)
       /\ Len(expectedOutputsTypes) = numOutputs(stage)
       /\ \A i \in 1..numInputs(stage) : stage.inputs[i].type \in expectedInputsTypes[i]
       /\ \A i \in 1..numOutputs(stage) : stage.outputs[i].type \in expectedOutputsTypes[i]
    THEN NoError
    ELSE ErrTypes

\* mutation: the 3-input expectation is used for every stage
initialCheckImplAlways3(stage) ==
    IF ~(numInputs(stage) = 3 \/ numInputs(stage) = 4) THEN ErrNumInputs
    ELSE IF ~(numOutputs(stage) = 1) THEN ErrNumOutputs
    ELSE LET input0DataType == stage.inputs[1].type
             expectedInputs3Types == <<{input0DataType}, {"S32"}, {"S32"}>>
         IN  assertInputsOutputsTypes(
                 [stage EXCEPT !.inputs = SubSeq(@, 1, 3)],
                 expectedInputs3Types,
                 <<{input0DataType}>>)

initialCheckImpl(stage) ==
    IF ~(numInputs(stage) = 3 \/ numInputs(stage) = 4) THEN ErrNumInputs
    ELSE IF ~(numOutputs(stage) = 1) THEN ErrNumOutputs
    ELSE LET input0DataType == stage.inputs[1].type
             expectedInputs3Types == <<{input0DataType}, {"S32"}, {"S32"}>>
             expectedInputs4Types == <<{input0DataType}, {"S32"}, {"S32"}, {"S32"}>>
         IN  assertInputsOutputsTypes(
                 stage,
                 IF numInputs(stage) = 3 THEN expectedInputs3Types
                                         ELSE expectedInputs4Types,
                 <<{input0DataType}>>)

U32(value) == [kind |-> "u32", value |-> value]
Buffer(data) == [kind |-> "buffer", data |-> data]

\* serializer.append(maskStrToInt(beginMask)); serializer.append(maskStrToInt(endMask)):
\* the outcomes are the error thrown and the blob as it is left.
serializeParamsImpl(stage, blob) ==
    UNION {
        IF beginEnc.status # "ok" THEN {[err |-> ErrFormat, blob |-> blob]}
        ELSE {IF endEnc.status # "ok"
              THEN [err |-> ErrFormat, blob |-> Append(blob, U32(beginEnc.result))]
              ELSE [err |-> NoError,
                    blob |-> blob \o <<U32(beginEnc.result), U32(endEnc.result)>>] :
                 endEnc \in maskStrToInt(stage.origLayer.end_mask)} :
        beginEnc \in maskStrToInt(stage.origLayer.begin_mask)}

serializeDataImpl(stage, blob) ==
    blob \o <<Buffer(stage.inputs[1]), Buffer(stage.inputs[2]),
              Buffer(stage.inputs[3]), Buffer(stage.inputs[4]),
              Buffer(stage.outputs[1])>>

----------------------------------------------------------------------------
(* The inputs the operations are exercised with *)

Texts(chars, n) == UNION {[1..k -> chars] : k \in 0..n}

NewAxisMaskTexts == {<<>>, <<"0", ",", "1">>, <<"1", ",", "x">>}
ShrinkAxisMaskTexts == {<<"0", ",", "0">>, <<"1">>, <<"x">>}
EllipsisMaskTexts == {<<"0">>, <<"1", ",", "0">>}
BeginEndMaskTexts == {<< <<"1", ",", "0">>, <<"0", ",", "1">> >>,
                      << <<"x">>,           <<"0", ",", "1">> >>,
                      << <<"1", ",", "0">>, <<"1", ",", "x">> >>}

Layers ==
    {[begin_mask |-> be[1], end_mask |-> be[2], new_axis_mask |-> na,
      shrink_axis_mask |-> sh, ellipsis_mask |-> el] :
        be \in BeginEndMaskTexts, na \in NewAxisMaskTexts,
        sh \in ShrinkAxisMaskTexts, el \in EllipsisMaskTexts}

StrideValues == {-1, 0, 2}
StridesTensors ==
    {Tensor("S32", "Const", TRUE, content) : content \in Texts(StrideValues, MaxStrides)}
        \cup {Tensor("S32", "Intermediate", FALSE, <<>>)}

InputData == Tensor("FP16", "Input", FALSE, <<>>)
BeginData == Tensor("S32", "Const", TRUE, <<0>>)
EndData == Tensor("S32", "Const", TRUE, <<1>>)
OutputData == Tensor("FP16", "Output", FALSE, <<>>)

InputLists ==
    {SubSeq(<<InputData, BeginData, EndData, strides, InputData>>, 1, n) :
        strides \in StridesTensors, n \in 2..5}
OutputLists == {SubSeq(<<OutputData, OutputData>>, 1, n) : n \in 0..2}

NoLayer == [begin_mask |-> <<>>, end_mask |-> <<>>, new_axis_mask |-> <<>>,
            shrink_axis_mask |-> <<>>, ellipsis_mask |-> <<>>]
NoCall == [layer |-> NoLayer, inputs |-> <<>>, outputs |-> <<>>,
           err |-> NoError, read |-> 0]
NoStage == [origLayer |-> NoLayer, inputs |-> <<>>, outputs |-> <<>>]
NotEncoded == [status |-> "none", result |-> Zero]

MaskChars == {"0", "1", ",", "x"}
Pad(character, n) == [i \in 1..n |-> character]
CodecInputs ==
    {Pad(character, n) \o text :
        character \in {"0", "1"}, n \in 0..MaxPad, text \in Texts(MaskChars, MaxMaskLen)}

CheckTensors == {Tensor(type, "Intermediate", FALSE, <<>>) : type \in DataTypes}
CheckStages ==
    {[origLayer |-> NoLayer, inputs |-> inputs, outputs |-> outputs] :
        inputs \in UNION {[1..n -> CheckTensors] : n \in 2..5},
        outputs \in UNION {[1..n -> CheckTensors] : n \in 0..2}}

----------------------------------------------------------------------------
(* The compiler passes over one graph *)

AllChecked ==
    /\ Len(checked) = Len(model.stages)
    /\ \A i \in 1..Len(checked) : checked[i] = NoError

Init ==
    /\ model = EmptyModel
    /\ pc = "idle"
    /\ call = NoCall
    /\ okCalls = 0
    /\ okCalls3 = 0
    /\ checked = <<>>
    /\ serializer = <<>>
    /\ serIdx = 1
    /\ serPc = "params"
    /\ serStart = 0
    /\ mask = <<>>
    /\ encoded = NotEncoded
    /\ chkStage = NoStage
    /\ chkResults = <<>>

\* The frontend translates one layer: one call of parseStridedSlice.
ParseStridedSlice ==
    /\ pc = "idle"
    /\ checked = <<>>
    /\ Len(model.stages) < MaxStages
    /\ \E layer \in Layers, inputs \in InputLists, outputs \in OutputLists :
         \E out \in parseStridedSlice(model, layer, inputs, outputs) :
            /\ model' = out.model
            /\ call' = [layer |-> layer, inputs |-> inputs, outputs |-> outputs,
                        err |-> out.err, read |-> out.read]
            /\ okCalls' = IF out.err = NoError THEN okCalls + 1 ELSE okCalls
            /\ okCalls3' = IF out.err = NoError /\ Len(inputs) = 3
                           THEN okCalls3 + 1 ELSE okCalls3
    /\ pc' = "parsed"
    /\ UNCHANGED <<checked, serializer, serIdx, serPc, serStart,
                   mask, encoded, chkStage, chkResults>>

\* Control is back in the frontend's loop over the layers; the arguments of
\* the call are gone.
ReturnToFrontEnd ==
    /\ pc = "parsed"
    /\ pc' = "idle"
    /\ call' = NoCall
    /\ UNCHANGED <<model, okCalls, okCalls3, checked, serializer, serIdx, serPc,
                   serStart, mask, encoded, chkStage, chkResults>>

\* Whole-graph verification: initialCheckImpl of the next stage; a failure
\* aborts the compilation.
InitialCheck ==
    /\ pc = "idle"
    /\ Len(checked) < Len(model.stages)
    /\ \A i \in 1..Len(checked) : checked[i] = NoError
    /\ checked' = Append(checked, initialCheckImpl(model.stages[Len(checked) + 1]))
    /\ UNCHANGED <<model, pc, call, okCalls, okCalls3, serializer, serIdx, serPc,
                   serStart, mask, encoded, chkStage, chkResults>>

\* Code generation: serializeParamsImpl of the next stage.
SerializeParams ==
    /\ pc = "idle"
    /\ AllChecked
    /\ serPc = "params"
    /\ serIdx <= Len(model.stages)
    /\ \E out \in serializeParamsImpl(model.stages[serIdx], serializer) :
          /\ serializer' = out.blob
          /\ serPc' = IF out.err = NoError THEN "data" ELSE "failed"
    /\ serStart' = Len(serializer)
    /\ UNCHANGED <<model, pc, call, okCalls, okCalls3, checked, serIdx,
                   mask, encoded, chkStage, chkResults>>

\* Code generation: serializeDataImpl of the same stage.
SerializeData ==
    /\ serPc = "data"
    /\ serializer' = serializeDataImpl(model.stages[serIdx], serializer)
    /\ serIdx' = serIdx + 1
    /\ serPc' = "params"
    /\ UNCHANGED <<model, pc, call, okCalls, okCalls3, checked, serStart,
                   mask, encoded, chkStage, chkResults>>

Next ==
    \/ ParseStridedSlice
    \/ ReturnToFrontEnd
    \/ InitialCheck
    \/ SerializeParams
    \/ SerializeData

Spec == Init /\ [][Next]_vars

----------------------------------------------------------------------------
(* maskStrToInt on its own *)

InitCodec ==
    /\ model = EmptyModel
    /\ pc = "idle"
    /\ call = NoCall
    /\ okCalls = 0
    /\ okCalls3 = 0
    /\ checked = <<>>
    /\ serializer = <<>>
    /\ serIdx = 1
    /\ serPc = "params"
    /\ serStart = 0
    /\ mask \in CodecInputs
    /\ encoded = NotEncoded
    /\ chkStage = NoStage
    /\ chkResults = <<>>

EncodeMask ==
    /\ encoded = NotEncoded
    /\ encoded' \in maskStrToInt(mask)
    /\ UNCHANGED <<model, pc, call, okCalls, okCalls3, checked, serializer, serIdx,
                   serPc, serStart, mask, chkStage, chkResults>>

NextCodec == EncodeMask

SpecCodec == InitCodec /\ [][NextCodec]_vars

----------------------------------------------------------------------------
(* initialCheckImpl on its own, on stages however they were built *)

InitCheck ==
    /\ model = EmptyModel
    /\ pc = "idle"
    /\ call = NoCall
    /\ okCalls = 0
    /\ okCalls3 = 0
    /\ checked = <<>>
    /\ serializer = <<>>
    /\ serIdx = 1
    /\ serPc = "params"
    /\ serStart = 0
    /\ mask = <<>>
    /\ encoded = NotEncoded
    /\ chkStage \in CheckStages
    /\ chkResults = <<>>

ValidateStage ==
    /\ Len(chkResults) < MaxChecks
    /\ chkResults' = Append(chkResults, initialCheckImpl(chkStage))
    /\ UNCHANGED <<model, pc, call, okCalls, okCalls3, checked, serializer, serIdx,
                   serPc, serStart, mask, encoded, chkStage>>

NextCheck == ValidateStage

SpecCheck == InitCheck /\ [][NextCheck]_vars

----------------------------------------------------------------------------
(* Vocabulary of the properties *)

Parsed == pc = "parsed"
Failed == Parsed /\ call.err # NoError

LastStage == model.stages[Len(model.stages)]

\* The text is made of '0', '1' and the separator only.
CleanText(text) == \A i \in 1..Len(text) : text[i] \in {"0", "1", ","}

IsFlag(character) == character # ","
Flags(text) == SelectSeq(text, IsFlag)

\* The text encodes to 0 / to a value other than 0.
EncodesToZero(text) == maskStrToInt(text) = {Returned(Zero)}
EncodesToNonZero(text) ==
    \A enc \in maskStrToInt(text) : enc.status = "ok" /\ enc.result # Zero

UnsupportedMasksZero(layer) ==
    /\ EncodesToZero(layer.new_axis_mask)
    /\ EncodesToZero(layer.shrink_axis_mask)
    /\ EncodesToZero(layer.ellipsis_mask)

NonPositive(strides) == {i \in 1..Len(strides.content) : strides.content[i] <= 0}
Least(S) == CHOOSE i \in S : \A j \in S : i <= j

\* The stage whose serialization ended last, and what was emitted for it.
SerializationEnded == serPc = "failed" \/ (serPc = "params" /\ serIdx > 1)
SerializedStage == model.stages[IF serPc = "failed" THEN serIdx ELSE serIdx - 1]
Emitted == SubSeq(serializer, serStart + 1, Len(serializer))

----------------------------------------------------------------------------
(* Mask codec *)

\* C3: for every text made only of '0', '1' and ',' with at most 32 flag
\* characters, maskStrToInt returns the integer whose bit i is set iff the
\* i-th non-separator character (counted from 0) is '1'; separators do not
\* advance the bit index and the empty text gives 0.
C3_MaskBits ==
    (encoded # NotEncoded /\ CleanText(mask) /\ Len(Flags(mask)) <= UInt32Bits) =>
        /\ encoded.status = "ok"
        /\ encoded.result \subseteq 0..(UInt32Bits - 1)
        /\ \A i \in 0..(UInt32Bits - 1) :
              Bit(encoded.result, i) <=>
                  (i < Len(Flags(mask)) /\ Flags(mask)[i + 1] = "1")
        /\ (mask = <<>> => encoded.result = Zero)

\* 32 flags with a separator before the last one, which sets bit 31.
C3_Witness ==
    /\ encoded.status = "ok"
    /\ CleanText(mask)
    /\ Len(Flags(mask)) = UInt32Bits
    /\ Len(mask) > UInt32Bits
    /\ mask[Len(mask) - 1] = ","
    /\ Bit(encoded.result, UInt32Bits - 1)
    /\ ~Bit(encoded.result, 0)

\* C4: maskStrToInt fails with a format error on every text holding a
\* character other than '0', '1' and ',', wherever that character stands,
\* and returns no value for it.
C4_FormatError ==
    (encoded # NotEncoded /\ ~CleanText(mask)) => encoded.status = "format_error"

\* The bad character is the last one, after flags and a separator.
C4_Witness ==
    /\ encoded.status = "format_error"
    /\ Len(mask) >= 3
    /\ mask[Len(mask)] = "x"
    /\ mask[Len(mask) - 1] = ","
    /\ CleanText(SubSeq(mask, 1, Len(mask) - 1))

----------------------------------------------------------------------------
(* Frontend translation *)

\* C5: a call with an input count other than 3 or 4 fails with the arity
\* error, whatever the outputs, the masks and the strides are.
C5_ArityFirst ==
    (Parsed /\ Len(call.inputs) \notin {3, 4}) =>
        /\ call.err = ErrNumInputs
        /\ call.err \in ArityErrors

\* 5 inputs, a wrong output count, a malformed mask, a nonzero mask and a
\* non-positive stride.
C5_Witness ==
    /\ Parsed
    /\ Len(call.inputs) = 5
    /\ Len(call.outputs) # 1
    /\ ~CleanText(call.layer.new_axis_mask)
    /\ EncodesToNonZero(call.layer.shrink_axis_mask)
    /\ NonPositive(call.inputs[4]) # {}
    /\ call.err = ErrNumInputs

\* What C6 promises of a successful 3-input call: 4 inputs, the given ones
\* in slots 0-2 and a placeholder without content in slot 3.
PlaceholderAppended ==
    /\ call.err = NoError
    /\ Len(LastStage.inputs) = 4
    /\ SubSeq(LastStage.inputs, 1, 3) = call.inputs
    /\ LastStage.inputs[4].usage = "Fake"
    /\ ~LastStage.inputs[4].hasContent
    /\ totalDimSize(LastStage.inputs[4]) = 0

\* C6 as stated: a call with exactly 3 inputs whose new_axis_mask,
\* shrink_axis_mask and ellipsis_mask all encode to 0 succeeds, and the
\* stage has the 3 inputs in slots 0-2 and a placeholder in slot 3.
C6_AsStated ==
    (Parsed /\ Len(call.inputs) = 3 /\ UnsupportedMasksZero(call.layer)) =>
        PlaceholderAppended

\* C6 amended: the same for a call with exactly 3 inputs and exactly 1
\* output whose new_axis_mask, shrink_axis_mask and ellipsis_mask all encode
\* to 0.
C6_PlaceholderAppended ==
    (Parsed /\ Len(call.inputs) = 3 /\ Len(call.outputs) = 1
            /\ UnsupportedMasksZero(call.layer)) =>
        PlaceholderAppended

C6_Witness ==
    /\ Parsed
    /\ Len(call.inputs) = 3
    /\ Len(call.outputs) = 1
    /\ UnsupportedMasksZero(call.layer)
    /\ Len(model.stages) = 2
    /\ LastStage.inputs[4].usage = "Fake"

C8_Unsupported ==
    (Parsed /\ \/ EncodesToNonZero(call.layer.new_axis_mask)
               \/ EncodesToNonZero(call.layer.shrink_axis_mask)
               \/ EncodesToNonZero(call.layer.ellipsis_mask)) =>
        /\ call.err # NoError
        /\ \A i \in 1..Len(model.stages) : model.stages[i].origLayer # call.layer
        /\ (/\ Len(call.inputs) \in {3, 4}
            /\ Len(call.outputs) = 1
            /\ CleanText(call.layer.new_axis_mask)
            /\ CleanText(call.layer.shrink_axis_mask)
            /\ CleanText(call.layer.ellipsis_mask)) =>
               call.err \in UnsupportedErrors

\* Only shrink_axis_mask is nonzero, everything else is valid.
C8_Witness ==
    /\ Parsed
    /\ EncodesToNonZero(call.layer.shrink_axis_mask)
    /\ EncodesToZero(call.layer.new_axis_mask)
    /\ EncodesToZero(call.layer.ellipsis_mask)
    /\ Len(call.inputs) = 4
    /\ call.inputs[4].hasContent
    /\ NonPositive(call.inputs[4]) = {}
    /\ Len(call.outputs) = 1
    /\ call.err = ErrShrinkAxisMask

\* C10: a failing call leaves the model as it was (no stage registered, no
\* placeholder added), and at any time the model holds one stage per
\* successful call and at most one placeholder per successful 3-input call.
C10_FailureLeavesModel ==
    /\ [](Len(model.stages) = okCalls /\ model.numFakeData <= okCalls3)
    /\ [][(pc' = "parsed" /\ call'.err # NoError) => model' = model]_vars

\* A 3-input call failing after a 3-input call succeeded.
C10_Witness ==
    /\ Failed
    /\ Len(call.inputs) = 3
    /\ call.err \in UnsupportedErrors
    /\ okCalls3 = 1
    /\ model.numFakeData = 1
    /\ Len(model.stages) = 1

----------------------------------------------------------------------------
(* Structural validation *)

\* C9: initialCheckImpl passes iff the stage has 3 or 4 inputs and exactly 1
\* output, input #0 and output #0 have the same element type and inputs #1,
\* #2 and (when present) #3 are S32; calling it again gives the same result.
WellFormed(stage) ==
    /\ Len(stage.inputs) \in {3, 4}
    /\ Len(stage.outputs) = 1
    /\ stage.inputs[1].type = stage.outputs[1].type
    /\ \A i \in 2..Len(stage.inputs) : stage.inputs[i].type = "S32"

C9_Validation ==
    \A k \in 1..Len(chkResults) :
        /\ chkResults[k] = NoError <=> WellFormed(chkStage)
        /\ chkResults[k] = chkResults[1]

\* A 4-input stage passed twice.
C9_Witness ==
    /\ Len(chkResults) = 2
    /\ Len(chkStage.inputs) = 4
    /\ chkResults[2] = NoError

----------------------------------------------------------------------------
(* Binary encoder *)

\* C1: once parseStridedSlice succeeded and initialCheckImpl passed, neither
\* serializeParamsImpl nor serializeDataImpl raises a failure, whatever the
\* layer's text attributes are, begin_mask and end_mask included.
C1_EncodersNeverFail ==
    AllChecked => serPc # "failed"

\* C2: serializing a validated stage emits exactly two 32-bit parameters
\* (beginMask, then endMask) followed by exactly 5 buffer references, for
\* input0, input1, input2, input3 and output0 in that order.
C2_BlobLayout ==
    (AllChecked /\ SerializationEnded) =>
        /\ Len(Emitted) = 7
        /\ Emitted[1].kind = "u32"
        /\ Returned(Emitted[1].value) \in maskStrToInt(SerializedStage.origLayer.begin_mask)
        /\ Emitted[2].kind = "u32"
        /\ Returned(Emitted[2].value) \in maskStrToInt(SerializedStage.origLayer.end_mask)
        /\ \A i \in 1..4 : Emitted[2 + i] = Buffer(SerializedStage.inputs[i])
        /\ Emitted[7] = Buffer(SerializedStage.outputs[1])

====
